---- MODULE Spec2Model ----
(***************************************************************************)
(* A model of PNGlib (src/src/pnglib.js): a palette PNG written directly   *)
(* into one pre-sized buffer, with the pixel stream framed in stored       *)
(* DEFLATE blocks.                                                         *)
(*                                                                         *)
(* The byte memory is the ArrayBuffer shared by this.raw and this.buffer:  *)
(* its length and its non-zero bytes, every other byte being the 0 it was  *)
(* allocated with.  this.buffer is the view of that memory that starts at  *)
(* byte PNG_HEAD.length.                                                   *)
(*                                                                         *)
(* Numbers follow JavaScript: <<, | and ~ work on 32-bit two's complement  *)
(* integers, a read outside a typed array yields undefined, and any sum    *)
(* with undefined is NaN.                                                  *)
(***************************************************************************)
EXTENDS Integers, Sequences, FiniteSets, TLC

\* ------------------------------------------------------------------------
\* Bounds of the model
\* ------------------------------------------------------------------------
MaxW == 2
MaxDepth == 2
MaxOps == 2
MaxBigOps == 1

\* ------------------------------------------------------------------------
\* JavaScript integer operations
\* ------------------------------------------------------------------------

\* x << 8 on a 32-bit integer: the low 24 bits move up, the top byte is lost,
\* and bit 31 of the result is the sign.
shl8(v) ==
  LET low24 == v % 16777216
      top   == low24 \div 65536
      rest  == low24 % 65536
  IN  (IF top >= 128 THEN top - 256 ELSE top) * 16777216 + rest * 256

\* i << k for the small non-negative i and k of the block header loop
\* (no bit reaches bit 31 there).
shl(i, k) == i * 2^k

RECURSIVE bitor(_, _)
bitor(a, b) ==
  IF a = 0 THEN b
  ELSE IF b = 0 THEN a
  ELSE (IF a % 2 = 1 \/ b % 2 = 1 THEN 1 ELSE 0) + 2 * bitor(a \div 2, b \div 2)

\* v | b for a 32-bit v and a byte b: only the low byte of v takes part.
orByte(v, b) == (v - (v % 256)) + bitor(v % 256, b)

\* ~x
bitnot(v) == (-v) - 1

\* ------------------------------------------------------------------------
\* The byte memory
\* ------------------------------------------------------------------------
\* BUF.alloc(n): n zero bytes.
alloc(n) == [size |-> n, at |-> [j \in {} |-> 0]]

Byte(mem, at) == IF at \in DOMAIN mem.at THEN mem.at[at] ELSE 0

\* mem[at] = v for a typed array: stored modulo 256, ignored outside it.
Store(mem, at, v) ==
  LET b == v % 256
  IN  IF at < 0 \/ at >= mem.size THEN mem
      ELSE IF b # 0 THEN [mem EXCEPT !.at = (at :> b) @@ mem.at]
      ELSE IF at \in DOMAIN mem.at
           THEN [mem EXCEPT !.at = [j \in (DOMAIN mem.at) \ {at} |-> mem.at[j]]]
           ELSE mem

\* ------------------------------------------------------------------------
\* ./buf (constants) and ./utils (scalar writers)
\* ------------------------------------------------------------------------
PNG_HEAD  == <<137, 80, 78, 71, 13, 10, 26, 10>>
PNG_IHDR  == <<73, 72, 68, 82>>
PNG_PLTE  == <<80, 76, 84, 69>>
PNG_tRNS  == <<116, 82, 78, 83>>
PNG_IDAT  == <<73, 68, 65, 84>>
PNG_IEND  == <<73, 69, 78, 68>>
CODE_X08X03 == <<8, 3>>
PNG_DEFLATE_HEADER == 30721
CODE_NUL == 0
CODE_SOH == 1

\* The byte offset of the view this.buffer inside the memory of this.raw.
BUFFER == Len(PNG_HEAD)

RECURSIVE writeb(_, _, _)
writeb(mem, at, bytes) ==
  IF bytes = <<>> THEN mem
  ELSE LET m == Store(mem, at, Head(bytes))
       IN  writeb(m, at + 1, Tail(bytes))

\* big-endian 32-bit
write4(mem, at, v) ==
  writeb(mem, at, <<v \div 16777216, v \div 65536, v \div 256, v>>)

\* big-endian 16-bit
write2(mem, at, v) == writeb(mem, at, <<v \div 256, v>>)

\* little-endian 16-bit
write2lsb(mem, at, v) == writeb(mem, at, <<v, v \div 256>>)

\* ------------------------------------------------------------------------
\* ./rgba: the colour-name parser.  A known name gives <<r, g, b, a>>, any
\* other text gives the empty (falsy) result.
\* ------------------------------------------------------------------------
RGBA(name) ==
  CASE name = "black" -> <<0, 0, 0, 255>>
    [] name = "white" -> <<255, 255, 255, 255>>
    [] name = "red"   -> <<255, 0, 0, 255>>
    [] name = "clear" -> <<0, 0, 0, 0>>
    [] OTHER          -> <<>>

\* ------------------------------------------------------------------------
\* constructor: sizes and offsets
\* ------------------------------------------------------------------------
pix_size(w, h) == h * (w + 1)

\* Fault: the header count rounded down, not up.
data_size_floor(pix) == 2 + pix + 5 * (pix \div 65535) + 4

data_size(pix) == 2 + pix + 5 * ((65534 + pix) \div 65535) + 4

\* d || 8 : a missing (or zero) d gives 8.
Depth(d) == IF d = 0 THEN 8 ELSE d

plte_size(depth) == 4 + 4 + 3 * depth + 4

trns_size(depth) == 4 + 4 + depth + 4

\* Fault: no room for the signature.
raw_length_bare(buffer_size) == buffer_size

raw_length(buffer_size) == Len(PNG_HEAD) + buffer_size

Layout(w, h, d) ==
  LET depth == Depth(d)
      pix   == pix_size(w, h)
      data  == data_size(pix)
      ihdr_offs == 0
      ihdr_size == 4 + 4 + 13 + 4
      plte_offs == ihdr_offs + ihdr_size
      plte_sz   == plte_size(depth)
      trns_offs == plte_offs + plte_sz
      trns_sz   == trns_size(depth)
      idat_offs == trns_offs + trns_sz
      idat_size == 4 + 4 + data + 4
      iend_offs == idat_offs + idat_size
      iend_size == 4 + 4 + 4
      buffer_size == iend_offs + iend_size
  IN  [width |-> w, height |-> h, depth |-> depth,
       pix_size |-> pix, data_size |-> data,
       ihdr_offs |-> ihdr_offs, ihdr_size |-> ihdr_size,
       plte_offs |-> plte_offs, plte_size |-> plte_sz,
       trns_offs |-> trns_offs, trns_size |-> trns_sz,
       idat_offs |-> idat_offs, idat_size |-> idat_size,
       iend_offs |-> iend_offs, iend_size |-> iend_size,
       buffer_size |-> buffer_size,
       raw_length |-> raw_length(buffer_size)]

\* ------------------------------------------------------------------------
\* constructor: the non-zero bytes.  A run of writes m0, m1, ... is listed as
\* a tuple, in program order, and its last memory is the result.
\* ------------------------------------------------------------------------
Skeleton(p) ==
  LET m0  == alloc(p.raw_length)
      m1  == write4(m0, BUFFER + p.ihdr_offs, p.ihdr_size - 12)
      m2  == writeb(m1, BUFFER + p.ihdr_offs + 4, PNG_IHDR)
      m3  == write4(m2, BUFFER + p.ihdr_offs + 4 * 2, p.width)
      m4  == write4(m3, BUFFER + p.ihdr_offs + 4 * 3, p.height)
      m5  == writeb(m4, BUFFER + p.ihdr_offs + 4 * 4, CODE_X08X03)
      m6  == write4(m5, BUFFER + p.plte_offs, p.plte_size - 12)
      m7  == writeb(m6, BUFFER + p.plte_offs + 4, PNG_PLTE)
      m8  == write4(m7, BUFFER + p.trns_offs, p.trns_size - 12)
      m9  == writeb(m8, BUFFER + p.trns_offs + 4, PNG_tRNS)
      m10 == write4(m9, BUFFER + p.idat_offs, p.idat_size - 12)
      m11 == writeb(m10, BUFFER + p.idat_offs + 4, PNG_IDAT)
      m12 == write4(m11, BUFFER + p.iend_offs, p.iend_size - 12)
      m13 == writeb(m12, BUFFER + p.iend_offs + 4, PNG_IEND)
      m14 == writeb(m13, 0, PNG_HEAD)
      m15 == write2(m14, BUFFER + p.idat_offs + 8, PNG_DEFLATE_HEADER)
  IN  <<m0, m1, m2, m3, m4, m5, m6, m7, m8, m9, m10, m11, m12, m13, m14, m15>>[16]

\* The loop test of the block header loop.
HeaderLoopTest(i, pix) == shl(i, 16) - 1 < pix

\* Whether block i is written as a non-final block.
HeaderMore(i, pix) == i + 65535 < pix

\* The length written into the final block's header.
HeaderLastSize(i, pix) == pix - shl(i, 16) - i

\* The offset of block header i in this.buffer.
HeaderOffs(p, i) == p.idat_offs + 8 + 2 + shl(i, 16) + shl(i, 2)

RECURSIVE BlockHeaders(_, _, _)
BlockHeaders(p, mem, i) ==
  IF ~HeaderLoopTest(i, p.pix_size) THEN mem
  ELSE
    LET more == HeaderMore(i, p.pix_size)
        size == IF more THEN 65535 ELSE HeaderLastSize(i, p.pix_size)
        bits == IF more THEN CODE_NUL ELSE CODE_SOH
        offs == BUFFER + HeaderOffs(p, i)
        m1   == writeb(mem, offs, <<bits>>)
        m2   == write2lsb(m1, offs + 1, size)
        m3   == write2lsb(m2, offs + 3, bitnot(size))
    IN  BlockHeaders(p, m3, i + 1)

\* ------------------------------------------------------------------------
\* index
\* ------------------------------------------------------------------------
index(p, x, y) ==
  LET i == y * (p.width + 1) + x + 1
  IN  p.idat_offs + 8 + 2 + 5 * ((i \div 65535) + 1) + i

\* this.buffer[i]: undefined outside the view.
InBuffer(p, i) == i >= 0 /\ i < p.buffer_size

BufferGet(p, mem, i) == Byte(mem, BUFFER + i)

\* this.buffer[i] = v: ignored outside the view, stored modulo 256 inside.
BufferSet(p, mem, i, v) == IF InBuffer(p, i) THEN Store(mem, BUFFER + i, v) ELSE mem

\* ------------------------------------------------------------------------
\* color
\* ------------------------------------------------------------------------
\* An argument list of color(): a name, or four numbers.  a = -1 stands for
\* a negative or an omitted alpha (undefined >= 0 is false as well).
ByName(name) == [str |-> TRUE, name |-> name, r |-> 0, g |-> 0, b |-> 0, a |-> 0]

ByRGBA(r, g, b, a) == [str |-> FALSE, name |-> "", r |-> r, g |-> g, b |-> b, a |-> a]

DefaultAlpha(alpha) == IF alpha >= 0 THEN alpha ELSE 255

\* (((((alpha << 8) | red) << 8) | green) << 8) | blue
ColorKey(red, green, blue, alpha) ==
  orByte(shl8(orByte(shl8(orByte(shl8(alpha), red)), green)), blue)

\* new Map()
EmptyMap == [k \in {} |-> 0]

\* Fault: the capacity test passes one registration too many.
PaletteOverfull(o) == o.pindex > o.png.depth

PaletteFull(o) == o.pindex = o.png.depth

\* Fault: palette entries one byte apart, not three.
ndx_packed(p, pindex) == p.plte_offs + 8 + pindex

ndx(p, pindex) == p.plte_offs + 8 + 3 * pindex

\* Fault: ++pindex for pindex++.
NewIndexIncremented(o) == o.pindex + 1

\* this.pindex++ as a value: the index the new colour gets.
NewIndex(o) == o.pindex

\* The object after registering a colour that is not in the palette yet.
Register(o, key, red, green, blue, alpha) ==
  LET p  == o.png
      n  == ndx(p, o.pindex)
      m1 == BufferSet(p, o.raw, n + 0, red)
      m2 == BufferSet(p, m1, n + 1, green)
      m3 == BufferSet(p, m2, n + 2, blue)
      m4 == BufferSet(p, m3, p.trns_offs + 8 + o.pindex, alpha)
  IN  [o EXCEPT !.raw = <<m1, m2, m3, m4>>[4],
                !.palette = [k \in (DOMAIN o.palette) \cup {key} |->
                               IF k = key THEN NewIndex(o) ELSE o.palette[k]],
                !.pindex = o.pindex + 1]

\* The result of a call: the object after it, whether it threw, and the
\* value it returned.
Returned(o, v) == [obj |-> o, threw |-> FALSE, val |-> v]

\* Fault: the error is swallowed.
ThrownSilently(o) == Returned(o, 0)

Thrown(o) == [obj |-> o, threw |-> TRUE, val |-> 0]

color(o, c) ==
  LET rgba == IF c.str THEN RGBA(c.name) ELSE <<c.r, c.g, c.b, DefaultAlpha(c.a)>>
  IN  IF c.str /\ rgba = <<>> THEN Thrown(o)
      ELSE
        LET key == ColorKey(rgba[1], rgba[2], rgba[3], rgba[4])
        IN  IF key \notin DOMAIN o.palette
            THEN IF PaletteFull(o) THEN Returned(o, CODE_NUL)
                 ELSE LET o2 == Register(o, key, rgba[1], rgba[2], rgba[3], rgba[4])
                      IN  Returned(o2, o2.palette[key])
            ELSE Returned(o, o.palette[key])

\* ------------------------------------------------------------------------
\* setPixel
\* ------------------------------------------------------------------------
\* Fault: the bounds tests let x = width and y = height through.
OutOfBoundsInclusive(p, x, y) == x < 0 \/ y < 0 \/ x > p.width \/ y > p.height

OutOfBounds(p, x, y) == x < 0 \/ y < 0 \/ x >= p.width \/ y >= p.height

setPixel(o, x, y, rgba) ==
  IF OutOfBounds(o.png, x, y) THEN Returned(o, 0)
  ELSE
    LET j == index(o.png, x, y)
        c == color(o, ByName(rgba))
    IN  IF c.threw THEN Thrown(o)
        ELSE Returned([c.obj EXCEPT !.raw = BufferSet(o.png, c.obj.raw, j, c.val)], 0)

\* ------------------------------------------------------------------------
\* constructor
\* ------------------------------------------------------------------------
\* bg = "" stands for no background argument.
constructor(w, h, d, bg) ==
  LET p  == Layout(w, h, d)
      o  == [png |-> p, raw |-> BlockHeaders(p, Skeleton(p), 0),
             palette |-> EmptyMap, pindex |-> 0]
  IN  IF bg # "" THEN color(o, ByName(bg)) ELSE color(o, ByRGBA(0, 0, 0, 0))

\* ------------------------------------------------------------------------
\* ./utils crc32: the CRC-32 of a chunk's type tag and payload (bytes
\* offs + 4 .. offs + size - 5), written big-endian into the chunk's last
\* four bytes.  A 32-bit word is kept as its four bytes, high byte first.
\* ------------------------------------------------------------------------
RECURSIVE bitxor(_, _)
bitxor(a, b) ==
  IF a = 0 THEN b
  ELSE IF b = 0 THEN a
  ELSE ((a + b) % 2) + 2 * bitxor(a \div 2, b \div 2)

XOR4 == [a \in 0..15 |-> [b \in 0..15 |-> bitxor(a, b)]]

xor8(a, b) == 16 * XOR4[a \div 16][b \div 16] + XOR4[a % 16][b % 16]

CRC_POLY == <<237, 184, 131, 32>>

shr1(c) ==
  << c[1] \div 2,
     (c[1] % 2) * 128 + c[2] \div 2,
     (c[2] % 2) * 128 + c[3] \div 2,
     (c[3] % 2) * 128 + c[4] \div 2 >>

\* c = c & 1 ? poly ^ (c >>> 1) : c >>> 1, k times
RECURSIVE crcEntry(_, _)
crcEntry(c, k) ==
  IF k = 0 THEN c
  ELSE LET s   == shr1(c)
           nxt == IF c[4] % 2 = 1
                  THEN << xor8(CRC_POLY[1], s[1]), xor8(CRC_POLY[2], s[2]),
                          xor8(CRC_POLY[3], s[3]), xor8(CRC_POLY[4], s[4]) >>
                  ELSE s
       IN  IF nxt[1] >= 0 THEN crcEntry(nxt, k - 1) ELSE nxt

CRC_TABLE == [n \in 0..255 |-> crcEntry(<<0, 0, 0, n>>, 8)]

crcStep(crc, byte) ==
  LET t == CRC_TABLE[xor8(crc[4], byte)]
  IN  << t[1], xor8(t[2], crc[1]), xor8(t[3], crc[2]), xor8(t[4], crc[3]) >>

\* The bytes at lo .. hi - 1, in order: the first half, then the second half
\* from the register the first half leaves (the test on the register only
\* makes the first half be computed before the second is entered).
RECURSIVE crcRange(_, _, _, _)
crcRange(mem, lo, hi, crc) ==
  IF hi <= lo THEN crc
  ELSE IF hi = lo + 1 THEN crcStep(crc, Byte(mem, lo))
  ELSE LET mid  == (lo + hi) \div 2
           left == crcRange(mem, lo, mid, crc)
       IN  IF left[1] >= 0 THEN crcRange(mem, mid, hi, left) ELSE left

crc32(mem, offs, size) ==
  LET crc == crcRange(mem, BUFFER + offs + 4, BUFFER + offs + size - 4,
                      <<255, 255, 255, 255>>)
  IN  writeb(mem, BUFFER + offs + size - 4, [j \in 1..4 |-> 255 - crc[j]])

\* ------------------------------------------------------------------------
\* deflate
\* ------------------------------------------------------------------------
BASE == 65521
NMAX == 5552

\* The offset deflate() reads stream byte _i3 at.
AdlerOffs(p, i3) ==
  LET baseOffset == p.idat_offs + 8 + 2 + 5
  IN  baseOffset * ((i3 \div 65535) + 1) + i3

\* One turn of the inner loop, for the k-th (y, x) pair in loop order.
\* nan: s1 and s2 are NaN (undefined was added to s1).
AdlerStep(p, mem, st, k) ==
  LET y   == k \div (p.width + 1)
      x   == (k % (p.width + 1)) - 1
      i3  == y * (p.width + 1) + x + 1
      off == AdlerOffs(p, i3)
      nan == st.nan \/ ~InBuffer(p, off)
      s1  == IF nan THEN 0 ELSE st.s1 + BufferGet(p, mem, off)
      s2  == IF nan THEN 0 ELSE st.s2 + s1
  IN  IF st.n - 1 = 0
      THEN [s1 |-> s1 % BASE, s2 |-> s2 % BASE, n |-> NMAX, nan |-> nan]
      ELSE [s1 |-> s1, s2 |-> s2, n |-> st.n - 1, nan |-> nan]

\* Turns lo .. hi - 1 of the loops, in order: the first half, then the second
\* half from the sums the first half leaves (the test on n only makes the
\* first half be computed before the second is entered).
RECURSIVE AdlerLoop(_, _, _, _, _)
AdlerLoop(p, mem, lo, hi, st) ==
  IF hi <= lo THEN st
  ELSE IF hi = lo + 1 THEN AdlerStep(p, mem, st, lo)
  ELSE LET mid  == (lo + hi) \div 2
           left == AdlerLoop(p, mem, lo, mid, st)
       IN  IF left.n >= 1 THEN AdlerLoop(p, mem, mid, hi, left) ELSE left

\* (s2 << 16) | s1 as a 32-bit integer; NaN gives 0.
AdlerWord(st) ==
  LET s1 == st.s1 % BASE
      s2 == st.s2 % BASE
  IN  IF st.nan THEN 0
      ELSE (IF s2 >= 32768 THEN s2 - 65536 ELSE s2) * 65536 + s1

\* Fault: the row loop runs one row too far.
AdlerTurnsOneMoreRow(p) == (p.height + 1) * (p.width + 1)

\* The number of turns of the two loops.
AdlerTurns(p) == p.height * (p.width + 1)

deflate(o) ==
  LET p  == o.png
      st == AdlerLoop(p, o.raw, 0, AdlerTurns(p),
                      [s1 |-> 1, s2 |-> 0, n |-> NMAX, nan |-> FALSE])
      offset == p.idat_offs + p.idat_size - 8
      m0 == write4(o.raw, BUFFER + offset, AdlerWord(st))
      m1 == crc32(m0, p.ihdr_offs, p.ihdr_size)
      m2 == crc32(m1, p.plte_offs, p.plte_size)
      m3 == crc32(m2, p.trns_offs, p.trns_size)
      m4 == crc32(m3, p.idat_offs, p.idat_size)
      m5 == crc32(m4, p.iend_offs, p.iend_size)
  IN  [o EXCEPT !.raw = <<m0, m1, m2, m3, m4, m5>>[6]]

\* Buffer.toString('base64'): the sextets of the bytes, 64 for the padding '='.
Base64(mem, len) ==
  [k \in 1..(4 * ((len + 2) \div 3)) |->
     LET g   == (k - 1) \div 4
         pos == (k - 1) % 4
         b0  == Byte(mem, 3 * g)
         b1  == IF 3 * g + 1 < len THEN Byte(mem, 3 * g + 1) ELSE 0
         b2  == IF 3 * g + 2 < len THEN Byte(mem, 3 * g + 2) ELSE 0
     IN  CASE pos = 0 -> b0 \div 4
           [] pos = 1 -> (b0 % 4) * 16 + b1 \div 16
           [] pos = 2 -> IF 3 * g + 1 < len THEN (b1 % 16) * 4 + b2 \div 64 ELSE 64
           [] OTHER   -> IF 3 * g + 2 < len THEN b2 % 64 ELSE 64]

getBuffer(o) == deflate(o)

getBase64(o) == deflate(o)

\* ------------------------------------------------------------------------
\* The state machine: one PNGlib object and the calls made on it
\* ------------------------------------------------------------------------
VARIABLES
  png,       \* the fields set once by the constructor (width .. buffer_size)
  raw,       \* the bytes of this.raw / this.buffer
  palette,   \* this.palette: colour key -> index
  pindex,    \* this.pindex
  call,      \* the last call made: its name and arguments
  ret,       \* what that call returned, or that it threw
  lastSet,   \* history: (x, y) -> the colour last stored there by setPixel
  finals,    \* history: how many getBuffer/getBase64 calls the last calls were
  nops       \* the number of calls made

vars == <<png, raw, palette, pindex, call, ret, lastSet, finals, nops>>

Obj == [png |-> png, raw |-> raw, palette |-> palette, pindex |-> pindex]

NoArg == ByName("")

Call(op, x, y, c) == [op |-> op, x |-> x, y |-> y, c |-> c]

Ret(threw, val, len, b64) == [threw |-> threw, val |-> val, len |-> len, b64 |-> b64]

\* An image whose pixel stream needs more than one stored block.
MultiBlock(p) == p.pix_size > 65535

\* The inputs the calls are tried with.
Backgrounds == {"", "black"}

Names == {"white", "red", "bogus"}

Numbers == {<<255, 255, 255, -1>>, <<0, 0, 0, 0>>, <<255, 0, 0, 128>>}

\* The widths tried are 1 .. MaxW; the heights are these.
Heights == {1, 2}

\* The coordinates 0 .. n - 1 near both ends: all of them for n <= 4.
Near(n) == { c \in {0, 1, n - 2, n - 1} : c >= 0 /\ c < n }

\* The positions setPixel is tried at: pixels of the image, and the four
\* positions just outside it at x = -1, x = width, y = -1 and y = height.
Positions(p) ==
  (Near(p.width) \X Near(p.height))
    \cup { <<-1, 0>>, <<p.width, 0>>, <<0, -1>>, <<0, p.height>> }

\* Sizes at the edges of the block framing: no pixel stream at all, and
\* pixel streams that need two stored blocks, and three.
EdgeSizes == { <<1, 0>>, <<65535, 1>>, <<1, 32768>>, <<1, 65536>> }

Budget == IF MultiBlock(png) THEN MaxBigOps ELSE MaxOps

Start(w, h, d, bg) ==
  LET r == constructor(w, h, d, bg)
  IN  /\ png = r.obj.png
      /\ raw = r.obj.raw
      /\ palette = r.obj.palette
      /\ pindex = r.obj.pindex
      /\ call = Call("new", 0, 0, IF bg = "" THEN ByRGBA(0, 0, 0, 0) ELSE ByName(bg))
      /\ ret = Ret(r.threw, r.val, 0, <<>>)
      /\ lastSet = EmptyMap
      /\ finals = 0
      /\ nops = 0

Init ==
  \E w \in 1..MaxW, h \in Heights, d \in 0..MaxDepth, bg \in Backgrounds :
    Start(w, h, d, bg)

InitEdge ==
  \E s \in EdgeSizes, bg \in Backgrounds :
    Start(s[1], s[2], MaxDepth, bg)

\* The object after a call, and the call's outcome (len and b64 may be given
\* in terms of the bytes after the call).
After(r, c, len, b64) ==
  /\ raw' = r.obj.raw
  /\ palette' = r.obj.palette
  /\ pindex' = r.obj.pindex
  /\ call' = c
  /\ ret' = Ret(r.threw, r.val, len, b64)
  /\ nops' = nops + 1
  /\ UNCHANGED png

ColorName ==
  /\ nops < Budget
  /\ \E name \in Names :
       LET arg == ByName(name)
           r   == color(Obj, arg)
       IN  After(r, Call("color", 0, 0, arg), 0, <<>>)
  /\ finals' = 0
  /\ UNCHANGED lastSet

ColorNumbers ==
  /\ nops < Budget
  /\ \E n \in Numbers :
       LET arg == ByRGBA(n[1], n[2], n[3], n[4])
           r   == color(Obj, arg)
       IN  After(r, Call("color", 0, 0, arg), 0, <<>>)
  /\ finals' = 0
  /\ UNCHANGED lastSet

\* Whether a setPixel call stored a pixel.
Stored(r, x, y) == ~r.threw /\ ~OutOfBounds(png, x, y)

SetPixel ==
  /\ nops < Budget
  /\ \E pos \in Positions(png), name \in Names :
       LET x == pos[1]
           y == pos[2]
           r == setPixel(Obj, x, y, name)
       IN  /\ After(r, Call("setPixel", x, y, ByName(name)), 0, <<>>)
           /\ lastSet' = IF Stored(r, x, y)
                         THEN [c \in (DOMAIN lastSet) \cup {<<x, y>>} |->
                                 IF c = <<x, y>> THEN RGBA(name) ELSE lastSet[c]]
                         ELSE lastSet
  /\ finals' = 0

\* deflate() walks every byte of the image.  On a multi-block image it is run
\* on the image as constructed only; on the others a finalizer that has just
\* run may always be run once more.
MayFinish ==
  IF MultiBlock(png)
  THEN nops < Budget /\ call.op = "new"
  ELSE nops < Budget \/ (nops = Budget /\ finals = 1)

\* buf.length of the Buffer a call returns.
length(mem) == mem.size

GetBuffer ==
  /\ MayFinish
  /\ LET o == getBuffer(Obj)
     IN  After(Returned(o, 0), Call("getBuffer", 0, 0, NoArg), length(raw'), <<>>)
  /\ finals' = finals + 1
  /\ UNCHANGED lastSet

GetBase64 ==
  /\ MayFinish
  /\ LET o == getBase64(Obj)
     IN  After(Returned(o, 0), Call("getBase64", 0, 0, NoArg), 0,
               Base64(raw', length(raw')))
  /\ finals' = finals + 1
  /\ UNCHANGED lastSet

Next == ColorName \/ ColorNumbers \/ SetPixel \/ GetBuffer \/ GetBase64

Spec == Init /\ [][Next]_vars

NextEdge == ColorName \/ ColorNumbers \/ SetPixel \/ GetBuffer

SpecEdge == InitEdge /\ [][NextEdge]_vars

\* ------------------------------------------------------------------------
\* What the properties below are stated in terms of
\* ------------------------------------------------------------------------

\* The colour a call names: a parsed colour name, or the four components with
\* the alpha defaulting to 255.  <<>> for a name no colour has.
ArgRGBA(c) ==
  IF c.str THEN RGBA(c.name)
  ELSE <<c.r, c.g, c.b, IF c.a >= 0 THEN c.a ELSE 255>>

\* The colour a PNG decoder finds at palette entry k: the k-th RGB triple of
\* the PLTE chunk's data and the k-th byte of the tRNS chunk's data.
PaletteEntry(mem, k) ==
  <<Byte(mem, BUFFER + png.plte_offs + 8 + 3 * k),
    Byte(mem, BUFFER + png.plte_offs + 8 + 3 * k + 1),
    Byte(mem, BUFFER + png.plte_offs + 8 + 3 * k + 2),
    Byte(mem, BUFFER + png.trns_offs + 8 + k)>>

\* The palette entries in use that hold a colour.
EntriesOf(mem, n, rgba) == { k \in 0..(n - 1) : PaletteEntry(mem, k) = rgba }

\* The colour the pixel (x, y) decodes to.
Decode(x, y) == PaletteEntry(raw, Byte(raw, BUFFER + index(png, x, y)))

\* The step just taken was a call of op.
Called(op) == call'.op = op /\ nops' = nops + 1

\* The pixels of the image.
Pixels(p) == (0..(p.width - 1)) \X (0..(p.height - 1))

Finalizers == {"getBuffer", "getBase64"}

ObjectUnchanged == raw' = raw /\ palette' = palette /\ pindex' = pindex

\* C1 as stated: every pixel set by setPixel(x, y, c) decodes to c's RGBA.
C1_RoundTrip ==
  \A pos \in DOMAIN lastSet : Decode(pos[1], pos[2]) = lastSet[pos]

\* C1: a pixel set by setPixel(x, y, c) decodes, through the byte at
\* index(x, y) and the PLTE/tRNS entry it names, to c's RGBA when c is held in
\* the palette; a colour the full palette refused decodes to entry 0.
C1_RoundTripOfHeldColors ==
  \A pos \in DOMAIN lastSet :
    IF EntriesOf(raw, pindex, lastSet[pos]) # {}
    THEN Decode(pos[1], pos[2]) = lastSet[pos]
    ELSE Decode(pos[1], pos[2]) = PaletteEntry(raw, 0)

\* Two pixels hold two different colours, neither of them entry 0.
C1_Witness ==
  \E a \in DOMAIN lastSet, b \in DOMAIN lastSet :
    /\ lastSet[a] # lastSet[b]
    /\ Byte(raw, BUFFER + index(png, a[1], a[2])) # 0
    /\ Byte(raw, BUFFER + index(png, b[1], b[2])) # 0
    /\ Decode(a[1], a[2]) = lastSet[a]
    /\ Decode(b[1], b[2]) = lastSet[b]

\* C2: with pindex = depth, color() on a parseable colour the palette does not
\* hold returns 0 without an error and changes neither the map, pindex nor
\* any byte.
C2_PaletteExhaustion ==
  [][ ( /\ Called("color")
        /\ pindex = png.depth
        /\ ArgRGBA(call'.c) # <<>>
        /\ EntriesOf(raw, pindex, ArgRGBA(call'.c)) = {} )
      => ( /\ ~ret'.threw
           /\ ret'.val = 0
           /\ ObjectUnchanged ) ]_vars

\* color() was called with a new colour on a full palette.
C2_Witness ==
  /\ call.op = "color"
  /\ nops >= 1
  /\ pindex = png.depth
  /\ ArgRGBA(call.c) # <<>>
  /\ EntriesOf(raw, pindex, ArgRGBA(call.c)) = {}
  /\ ret.val = 0
  /\ ~ret.threw

\* The indices the map hands out are 0 .. pindex - 1, one per colour, and
\* there are never more than depth of them.
PaletteSequential ==
  /\ pindex <= png.depth
  /\ Cardinality(DOMAIN palette) = pindex
  /\ { palette[k] : k \in DOMAIN palette } = 0..(pindex - 1)
  /\ \A k \in 0..(pindex - 1) : Cardinality(EntriesOf(raw, pindex, PaletteEntry(raw, k))) = 1

\* C3: color() on a colour the palette holds returns that colour's index and
\* changes nothing; an index once assigned never changes; indices are
\* assigned 0, 1, 2, ... in order of first registration, at most depth of them.
C3_Registration ==
  [][ /\ ( ( /\ Called("color")
             /\ ArgRGBA(call'.c) # <<>>
             /\ EntriesOf(raw, pindex, ArgRGBA(call'.c)) # {} )
           => ( /\ ~ret'.threw
                /\ EntriesOf(raw, pindex, ArgRGBA(call'.c)) = {ret'.val}
                /\ ObjectUnchanged ) )
      /\ \A k \in DOMAIN palette : k \in DOMAIN palette' /\ palette'[k] = palette[k]
      /\ \A k \in 0..(pindex - 1) : PaletteEntry(raw', k) = PaletteEntry(raw, k)
      /\ \A k \in (DOMAIN palette') \ (DOMAIN palette) :
           palette'[k] = pindex /\ pindex' = pindex + 1
      /\ PaletteSequential' ]_vars

\* color() was called again on a colour registered second, and returned 1.
C3_Witness ==
  /\ call.op = "color"
  /\ nops >= 2
  /\ pindex = 2
  /\ ~ret.threw
  /\ ret.val = 1
  /\ EntriesOf(raw, pindex, ArgRGBA(call.c)) = {1}

\* C4: a finalizer run right after a finalizer leaves every byte as the first
\* run left it, and returns what the first run returned when it is the same
\* finalizer.
C4_FinalizerIdempotent ==
  [][ ( /\ call.op \in Finalizers
        /\ call'.op \in Finalizers
        /\ nops' = nops + 1 )
      => ( /\ raw' = raw
           /\ ret'.threw = ret.threw
           /\ (call'.op = call.op => ret' = ret) ) ]_vars

\* Pixels were set, and then two finalizers ran in a row.
C4_Witness ==
  /\ finals >= 2
  /\ call.op \in Finalizers
  /\ lastSet # EmptyMap

ChunkSizes ==
  png.ihdr_size + png.plte_size + png.trns_size + png.idat_size + png.iend_size

\* The five chunks follow the signature and each other without gap or overlap
\* and end where the buffer ends.
Contiguous ==
  /\ png.ihdr_offs = 0
  /\ png.ihdr_size > 0
  /\ png.plte_offs = png.ihdr_offs + png.ihdr_size
  /\ png.plte_size > 0
  /\ png.trns_offs = png.plte_offs + png.plte_size
  /\ png.trns_size > 0
  /\ png.idat_offs = png.trns_offs + png.trns_size
  /\ png.idat_size > 0
  /\ png.iend_offs = png.idat_offs + png.idat_size
  /\ png.iend_size > 0
  /\ png.iend_offs + png.iend_size = png.buffer_size

\* C5: the chunks are contiguous from the signature to the end of the buffer,
\* the object's bytes and the Buffer getBuffer() returns are 8 plus the five
\* chunk sizes long, and offsets and sizes never change.
C5_Layout ==
  /\ [](/\ Contiguous
        /\ length(raw) = Len(PNG_HEAD) + ChunkSizes
        /\ Len(PNG_HEAD) = 8
        /\ (call.op = "getBuffer" => ret.len = 8 + ChunkSizes))
  /\ [][png' = png]_vars

\* getBuffer() returned after colours were registered and pixels set.
C5_Witness ==
  /\ call.op = "getBuffer"
  /\ ret.len = 8 + ChunkSizes
  /\ pindex >= 2
  /\ lastSet # EmptyMap

\* C6: color() on a name no colour has, and setPixel() with it at a pixel of
\* the image, throw in that call and change nothing; a finalizer never throws.
C6_InvalidName ==
  [][ /\ ( ( /\ Called("color") \/ Called("setPixel")
             /\ call'.c.str
             /\ ArgRGBA(call'.c) = <<>>
             /\ (call'.op = "setPixel" => <<call'.x, call'.y>> \in Pixels(png)) )
           => ( /\ ret'.threw
                /\ ObjectUnchanged
                /\ lastSet' = lastSet ) )
      /\ (call'.op \in Finalizers => ~ret'.threw) ]_vars

\* setPixel() with such a name threw at a pixel that had been set before.
C6_Witness ==
  /\ call.op = "setPixel"
  /\ ArgRGBA(call.c) = <<>>
  /\ ret.threw
  /\ <<call.x, call.y>> \in DOMAIN lastSet

\* Where the i-th byte of the scanline stream lies in the buffer: behind the
\* chunk's length and type, the two zlib header bytes, and one 5-byte header
\* for each stored block of 65535 bytes begun so far.
StreamAt(p, i) == p.idat_offs + 8 + 2 + 5 * ((i \div 65535) + 1) + i

\* Whether byte j of the buffer holds no pixel: it lies before the IDAT
\* chunk's data, or is one of the two zlib header bytes, a byte of a 5-byte
\* stored-block header (one every 65540 bytes), a row's filter byte, or lies
\* in the Adler-32 field or behind it.
NotPixel(p, j) ==
  \/ j < p.idat_offs + 8 + 2
  \/ (j - (p.idat_offs + 8 + 2)) % 65540 < 5
  \/ \E y \in 0..(p.height - 1) : j = StreamAt(p, y * (p.width + 1))
  \/ j >= p.idat_offs + p.idat_size - 8

\* The bytes only a finalizer or a registration may write: the CRC fields,
\* the Adler-32 field, and the PLTE and tRNS data.
Checksums(p) ==
  { p.ihdr_offs + p.ihdr_size - 4 + t : t \in 0..3 }
    \cup ((p.plte_offs + 8)..(p.plte_offs + p.plte_size - 1))
    \cup ((p.trns_offs + 8)..(p.trns_offs + p.trns_size - 1))
    \cup ((p.idat_offs + p.idat_size - 8)..(p.idat_offs + p.idat_size - 1))
    \cup { p.iend_offs + p.iend_size - 4 + t : t \in 0..3 }

\* The addresses at which two memories differ.
Differ(m1, m2) ==
  { j \in (DOMAIN m1.at) \cup (DOMAIN m2.at) : Byte(m1, j) # Byte(m2, j) }

\* The bytes a registration made by this step wrote.
NewEntry ==
  IF pindex' = pindex + 1
  THEN { png.plte_offs + 8 + 3 * pindex + t : t \in 0..2 } \cup { png.trns_offs + 8 + pindex }
  ELSE {}

\* C7: setPixel() outside the image changes nothing and raises no error;
\* inside it changes only the byte at index(x, y) and the PLTE/tRNS entry of a
\* colour it registers; index() is injective on the pixels and addresses no
\* filter, header or framing byte; filter bytes stay 0 and framing bytes keep
\* their construction-time values.
C7_SetPixelFrame ==
  /\ [](/\ \A a \in Pixels(png) :
             /\ index(png, a[1], a[2]) \in 0..(png.buffer_size - 1)
             /\ ~NotPixel(png, index(png, a[1], a[2]))
             /\ \A b \in Pixels(png) :
                  a # b => index(png, a[1], a[2]) # index(png, b[1], b[2])
        /\ \A y \in 0..(png.height - 1) :
             Byte(raw, BUFFER + StreamAt(png, y * (png.width + 1))) = 0)
  /\ [][ /\ \A j \in Differ(raw, raw') :
              NotPixel(png, j - BUFFER) => j - BUFFER \in Checksums(png)
         /\ Called("setPixel")
            => IF <<call'.x, call'.y>> \notin Pixels(png)
               THEN ~ret'.threw /\ ObjectUnchanged /\ lastSet' = lastSet
               ELSE LET may == {index(png, call'.x, call'.y)} \cup NewEntry
                    IN  \A j \in Differ(raw, raw') : j - BUFFER \in may ]_vars

\* setPixel() was called outside an image that has a pixel set.
C7_Witness ==
  /\ call.op = "setPixel"
  /\ <<call.x, call.y>> \notin Pixels(png)
  /\ ~ret.threw
  /\ \E pos \in DOMAIN lastSet : Byte(raw, BUFFER + index(png, pos[1], pos[2])) # 0

\* The least n with n * d >= a.
CeilDiv(a, d) == CHOOSE n \in 0..((a \div d) + 1) : n * d >= a /\ (n - 1) * d < a

\* The five bytes of a stored-block header: the final-block flag, the block's
\* length low byte first, and the length's one's complement low byte first.
BlockHeader(final, len) ==
  <<IF final THEN 1 ELSE 0, len % 256, len \div 256,
    (65535 - len) % 256, (65535 - len) \div 256>>

HeaderAt(p, mem, k) ==
  LET h == BUFFER + p.idat_offs + 8 + 2 + 65540 * k
  IN  <<Byte(mem, h), Byte(mem, h + 1), Byte(mem, h + 2), Byte(mem, h + 3), Byte(mem, h + 4)>>

\* C8 as stated: the pixel stream is cut into ceil(p / 65535) stored blocks;
\* block k has its header 65540 * k bytes behind the zlib header, every block
\* but the last is 65535 bytes long with flag 0, and the last holds the rest
\* with flag 1.
C8_StoredBlocks ==
  LET n == CeilDiv(png.pix_size, 65535)
  IN  \A k \in 0..(n - 1) :
        HeaderAt(png, raw, k) =
          IF k < n - 1 THEN BlockHeader(FALSE, 65535)
          ELSE BlockHeader(TRUE, png.pix_size - 65535 * k)

\* The logical stream's i-th byte, read as the pixel and filter bytes lie.
StreamByte(mem, i) == Byte(mem, BUFFER + StreamAt(png, i))

\* Adler-32 as RFC 1950 defines it, over stream bytes lo .. hi - 1.
RECURSIVE Adler32(_, _, _, _)
Adler32(mem, lo, hi, s) ==
  IF hi - lo <= 0 THEN s
  ELSE IF hi - lo = 1
       THEN LET s1 == (s[1] + StreamByte(mem, lo)) % 65521
            IN  <<s1, (s[2] + s1) % 65521>>
       ELSE LET mid  == (lo + hi) \div 2
                left == Adler32(mem, lo, mid, s)
            IN  IF left[1] >= 0 THEN Adler32(mem, mid, hi, left) ELSE left

\* The four bytes an Adler-32 value is stored as, s2 first, high byte first.
AdlerBytes(s) == <<s[2] \div 256, s[2] % 256, s[1] \div 256, s[1] % 256>>

AdlerField(mem) ==
  LET f == BUFFER + png.idat_offs + png.idat_size - 8
  IN  <<Byte(mem, f), Byte(mem, f + 1), Byte(mem, f + 2), Byte(mem, f + 3)>>

\* C9 as stated: after a finalizer the Adler-32 field holds the standard
\* Adler-32 of the logical stream of pix_size bytes.
C9_Adler32 ==
  call.op \in Finalizers
    => AdlerField(raw) = AdlerBytes(Adler32(raw, 0, png.pix_size, <<1, 0>>))

\* C10 as stated: data_size = 2 + p + 5 * ceil((65534 + p) / 65535) + 4 and
\* the IDAT chunk is 12 bytes more.
C10_FramedSize ==
  /\ png.data_size = 2 + png.pix_size + 5 * CeilDiv(65534 + png.pix_size, 65535) + 4
  /\ png.idat_size = 12 + png.data_size

\* C10: data_size = 2 + p + 5 * ceil(p / 65535) + 4 with p = height *
\* (width + 1), which budgets at least one stored-block header when p >= 1
\* and none when p = 0, and the IDAT chunk is 12 bytes more.
C10_FramedSizeOfBlocks ==
  /\ png.pix_size = png.height * (png.width + 1)
  /\ png.data_size = 2 + png.pix_size + 5 * CeilDiv(png.pix_size, 65535) + 4
  /\ (png.pix_size >= 1 => png.data_size >= 2 + png.pix_size + 5 + 4)
  /\ (png.pix_size = 0 => png.data_size = 2 + 4)
  /\ png.idat_size = 12 + png.data_size

\* An image of three stored blocks has been built and used.
C10_Witness ==
  /\ CeilDiv(png.pix_size, 65535) = 3
  /\ png.data_size = 131072 + 21
  /\ nops >= 1

====
